---------------------------- MODULE Spec2Model ----------------------------
(***************************************************************************)
(* A model of the slang-rs bridge (src/src/lib.rs, src/src/utils.rs,       *)
(* src/src/reflection/shader.rs): the status/diagnostic mapping of the     *)
(* typed facade operations, handle duplication and widening, host blobs,   *)
(* the virtual file system slot, the compiler option builder, the lazy     *)
(* index sequences, the reflection lookups and the descriptor builders.    *)
(*                                                                         *)
(* The native library is the environment: each native call answers with a  *)
(* status and out-parameter values drawn from small sets.                  *)
(***************************************************************************)
EXTENDS Integers, Sequences, FiniteSets, TLC

VARIABLES
    pc,         \* "run", "panicked" (a Rust panic unwound) or "crashed" (UB took the process down)
    last,       \* the last facade operation: what was called, what the native call answered, what the facade returned
    errHeld,    \* the utils::Error value the caller holds from the last failed operation
    shown,      \* the outcome of formatting errHeld with Display
    nullSites,  \* the places where a vtable dispatch went through a null pointer
    heap,       \* the reference-counted objects behind the handles, by address 1..Len(heap)
    handles,    \* every handle value made so far: its pointer, whether it is still alive, the handle it was cloned from
    slice,      \* what the last Blob::as_slice returned, and through which handle
    fsInstalled, \* SessionDesc.fileSystem: the installed FileSystemImpl and the host file system it wraps
    fsCall,     \* the last invocation of the load-file slot by the native library
    strings,    \* CompilerOptions.strings: the CStrings the builder owns, each with the address of its buffer
    options,    \* CompilerOptions.options: the option entries
    optCall,    \* the last CompilerOptions setter call
    iter,       \* the index sequence being consumed: its count, its position, what it yielded
    fetchLog,   \* the indexes fetched from the native side for that sequence, in order
    lookups,    \* the ProgramLayout lookups made so far: what the native accessor answered, what the lookup returned
    sessionDesc, \* the SessionDesc value being built (sys::slang_SessionDesc)
    targetDesc, \* the TargetDesc value being built (sys::slang_TargetDesc)
    descCall    \* the last descriptor builder call, with the descriptors as they were before it

facadeVars == <<pc, last, errHeld, shown, nullSites>>

handleVars == <<heap, handles, slice>>

fsVars == <<fsInstalled, fsCall>>

optVars == <<strings, options, optCall>>

iterVars == <<iter, fetchLog>>

lookupVars == <<lookups>>

descVars == <<sessionDesc, targetDesc, descCall>>

vars == <<facadeVars, handleVars, fsVars, optVars, iterVars, lookupVars, descVars>>

\* what the actions of one part leave alone: the state of the other parts
notFacade == <<handleVars, fsVars, optVars, iterVars, lookupVars, descVars>>

notHandle == <<facadeVars, fsVars, optVars, iterVars, lookupVars, descVars>>

notFs == <<facadeVars, handles, slice, optVars, iterVars, lookupVars, descVars>>

notOpt == <<facadeVars, handleVars, fsVars, iterVars, lookupVars, descVars>>

notIter == <<facadeVars, handleVars, fsVars, optVars, lookupVars, descVars>>

notLookup == <<facadeVars, handleVars, fsVars, optVars, iterVars, descVars>>

notDesc == <<facadeVars, handleVars, fsVars, optVars, iterVars, lookupVars>>

----------------------------------------------------------------------------
(* Pointers, statuses and the values of utils::Result<T>.                  *)

\* std::ptr::null_mut()
NULL == "null"

\* native objects a facade handle may point at
ObjPtrs == {"obj1", "obj2"}

\* native blobs carrying diagnostics: one with UTF-8 text, one with bytes that are not UTF-8
DiagPtrs == {"diagText", "diagBad"}

S_OK == 0

E_INVALIDARG == -2147024809

\* the statuses a native call answers with in the model
Statuses == {E_INVALIDARG, -1, S_OK, 1}

\* the bytes behind a blob pointer (getBufferPointer / getBufferSize of a native blob)
BlobBytes(p) ==
    CASE p = "diagText" -> <<104, 105>>
      [] p = "diagBad" -> <<255>>
      [] OTHER -> <<1, 2>>

NoResult ==
    [kind |-> "none", err |-> "none", code |-> 0, ty |-> "none", ptr |-> NULL, val |-> FALSE]

\* Ok(())
OkUnit ==
    [NoResult EXCEPT !.kind = "Ok", !.ty = "unit"]

\* Ok(T(ptr)) for a handle type T
OkHandle(ty, p) ==
    [NoResult EXCEPT !.kind = "Ok", !.ty = ty, !.ptr = p]

\* Err(Error::Result(code))
ErrResult(c) ==
    [NoResult EXCEPT !.kind = "Err", !.err = "Result", !.code = c]

\* Err(Error::Blob(Blob(p)))
ErrBlob(p) ==
    [NoResult EXCEPT !.kind = "Err", !.err = "Blob", !.ty = "Blob", !.ptr = p]

\* Some(v) / None of Option<bool>
SomeBool(v) ==
    [NoResult EXCEPT !.kind = "Some", !.ty = "bool", !.val = v]

NoneBool ==
    [NoResult EXCEPT !.kind = "None"]

\* the call unwound with a panic and returned nothing
Panicked ==
    [NoResult EXCEPT !.kind = "Panic"]

succeeded(result) ==
    result >= 0

\* result_from_ffi with the comparison off by one: S_OK taken for a failure
result_from_ffi_le(result) ==
    IF result <= 0 THEN ErrResult(result) ELSE OkUnit

result_from_ffi(result) ==
    IF result < 0 THEN ErrResult(result) ELSE OkUnit

result_from_blob(result, blob) ==
    IF result < 0 THEN ErrBlob(blob) ELSE OkUnit

\* the `?` operator: an Err returns at once, otherwise the rest of the body runs
Try(r, rest) ==
    IF r.kind = "Err" THEN r ELSE rest

\* CString::new(s): fails on an interior NUL, otherwise the bytes with a NUL appended
HasNul(s) ==
    \E i \in 1..Len(s) : s[i] = 0

CStringNew(s) ==
    IF HasNul(s) THEN [ok |-> FALSE, bytes |-> <<>>]
    ELSE [ok |-> TRUE, bytes |-> Append(s, 0)]


----------------------------------------------------------------------------
(* Handles (define_interface!) and the facade operations as functions of   *)
(* what the native call answered.                                          *)

Handle(ty, p) ==
    [ty |-> ty, ptr |-> p]

\* the interfaces declared with a base type: define_interface!(X, sys, ComponentType)
Narrow == {"Module", "EntryPoint", "TypeConformance"}

\* $name::as_raw
as_raw(h) ==
    h.ptr

\* Deref written as a duplicate: the same pointer, after one add-reference call
Deref_addref(h) ==
    [handle |-> [ty |-> "ComponentType", ptr |-> h.ptr], rc |-> 1]

\* Deref for a narrow handle: mem::transmute(self), the same pointer seen as
\* the base type; rc counts the add-reference / release calls it makes
Deref(h) ==
    [handle |-> Handle("ComponentType", h.ptr), rc |-> 0]

\* method resolution on a receiver: a ComponentType method called on a narrow
\* handle goes through Deref, on a ComponentType handle it is called directly
Receiver(h) ==
    IF h.ty \in Narrow THEN Deref(h) ELSE [handle |-> h, rc |-> 0]

\* `index as _` from u32 to the native 32-bit signed index: the value itself
\* up to i32::MAX, wrapped around above it
AsI32(n) ==
    IF n <= 2147483647 THEN n ELSE n - 2147483647 - 2147483647 - 2

GlobalSession_new(status, out) ==
    Try(result_from_ffi(status), OkHandle("GlobalSession", out))

create_session(status, out) ==
    Try(result_from_ffi(status), OkHandle("Session", out))

\* load_module falling back to Error::default() when no diagnostics were written
load_module_default(module, diagnostics) ==
    IF module = NULL
    THEN (IF diagnostics = NULL THEN ErrResult(E_INVALIDARG) ELSE ErrBlob(diagnostics))
    ELSE OkHandle("Module", module)

load_module(module, diagnostics) ==
    IF module = NULL THEN ErrBlob(diagnostics) ELSE OkHandle("Module", module)

create_composite_component_type(status, out, diagnostics) ==
    Try(result_from_blob(status, diagnostics), OkHandle("ComponentType", out))

is_parameter_location_used(res, used) ==
    IF succeeded(res) THEN SomeBool(used) ELSE NoneBool

layout(program_layout, diagnostics) ==
    IF program_layout = NULL THEN ErrBlob(diagnostics)
    ELSE OkHandle("ProgramLayout", program_layout)

link(status, out, diagnostics) ==
    Try(result_from_blob(status, diagnostics), OkHandle("ComponentType", out))

target_code(status, out, diagnostics) ==
    Try(result_from_blob(status, diagnostics), OkHandle("Blob", out))

entry_point_code(status, out, diagnostics) ==
    Try(result_from_blob(status, diagnostics), OkHandle("Blob", out))

target_metadata(status, out, diagnostics) ==
    Try(result_from_blob(status, diagnostics), OkHandle("Metadata", out))

entry_point_metadata(status, out, diagnostics) ==
    Try(result_from_blob(status, diagnostics), OkHandle("Metadata", out))

find_entry_point_by_name(status, out) ==
    Try(result_from_ffi(status), OkHandle("EntryPoint", out))

entry_point_by_index(status, out) ==
    Try(result_from_ffi(status), OkHandle("EntryPoint", out))

----------------------------------------------------------------------------
(* The facade state machine: one action per facade operation.  The caller  *)
(* picks a handle and arguments, the native call answers, the facade maps  *)
(* the answer to its result.                                               *)

\* operations whose native call returns a status
FfiOps == {"GlobalSession::new", "create_session", "find_entry_point_by_name",
           "entry_point_by_index"}

DiagOps == {"create_composite_component_type", "link", "target_code",
            "entry_point_code", "target_metadata", "entry_point_metadata"}

StatusOps == FfiOps \cup DiagOps \cup {"is_parameter_location_used"}

\* the values a native call may leave in a handle out-parameter
Outs == {NULL, "obj1"}

\* the values a native call may leave in a diagnostics out-parameter
Diags == {NULL} \cup DiagPtrs

\* index arguments the caller passes
Indexes == {0, 1}

\* names the caller passes: "m" and a name with an interior NUL
NameInputs == {<<109>>, <<109, 0, 109>>}

NoShown ==
    [kind |-> "none", code |-> 0, text |-> <<>>]

NoCall ==
    [op |-> "none", via |-> "none", self |-> NULL, target |-> NULL, rc |-> 0,
     args |-> <<>>, sent |-> <<>>, status |-> S_OK, out |-> NULL, diag |-> NULL,
     used |-> FALSE, result |-> NoResult]

\* the caller starts an operation when it runs and holds no earlier result
Idle ==
    pc = "run" /\ last.op = "none"

\* the caller's view after the operation recorded in last' returned
Returned ==
    /\ errHeld' = IF last'.result.kind = "Err" THEN last'.result ELSE NoResult
    /\ shown' = NoShown
    /\ pc' = IF last'.result.kind = "Panic" THEN "panicked" ELSE "run"
    /\ UNCHANGED <<nullSites, notFacade>>

\* a call on receiver h with arguments args, sent to the native side as sent
OnHandle(op, h, args, sent) ==
    LET r == Receiver(h) IN
    [NoCall EXCEPT !.op = op, !.via = h.ty, !.self = h.ptr,
                   !.target = as_raw(r.handle), !.rc = r.rc,
                   !.args = args, !.sent = sent]

Answer(c, status, out, diag, result) ==
    [c EXCEPT !.status = status, !.out = out, !.diag = diag, !.result = result]

GlobalSessionNew ==
    /\ Idle
    /\ \E st \in Statuses, out \in Outs :
        last' = Answer([NoCall EXCEPT !.op = "GlobalSession::new"],
                       st, out, NULL, GlobalSession_new(st, out))
    /\ Returned

CreateSession ==
    /\ Idle
    /\ \E p \in ObjPtrs, st \in Statuses, out \in Outs :
        last' = Answer(OnHandle("create_session", Handle("GlobalSession", p), <<>>, <<>>),
                       st, out, NULL, create_session(st, out))
    /\ Returned

LoadModule ==
    /\ Idle
    /\ \E p \in ObjPtrs, name \in NameInputs, module \in Outs, dg \in Diags :
        LET c == OnHandle("load_module", Handle("Session", p), name, CStringNew(name).bytes) IN
        last' = IF CStringNew(name).ok
                THEN Answer(c, S_OK, module, dg, load_module(module, dg))
                ELSE [c EXCEPT !.result = Panicked]
    /\ Returned

CreateComposite ==
    /\ Idle
    /\ \E p \in ObjPtrs, n \in Indexes, st \in Statuses, out \in Outs, dg \in Diags :
        last' = Answer(OnHandle("create_composite_component_type", Handle("Session", p),
                                <<n>>, <<n>>),
                       st, out, dg, create_composite_component_type(st, out, dg))
    /\ Returned

IsParameterLocationUsed ==
    /\ Idle
    /\ \E p \in ObjPtrs, st \in Statuses, used \in BOOLEAN :
        last' = [Answer(OnHandle("is_parameter_location_used", Handle("Metadata", p),
                                 <<0, 0, 0>>, <<0, 0, 0>>),
                        st, NULL, NULL, is_parameter_location_used(st, used))
                 EXCEPT !.used = used]
    /\ Returned

\* the handles a ComponentType method can be called on
ComponentHandles ==
    {Handle(ty, p) : ty \in {"ComponentType"} \cup Narrow, p \in ObjPtrs}

Layout ==
    /\ Idle
    /\ \E h \in ComponentHandles, i \in Indexes, ret \in Outs, dg \in Diags :
        last' = Answer(OnHandle("layout", h, <<i>>, <<i>>),
                       S_OK, ret, dg, layout(ret, dg))
    /\ Returned

Link ==
    /\ Idle
    /\ \E h \in ComponentHandles, st \in Statuses, out \in Outs, dg \in Diags :
        last' = Answer(OnHandle("link", h, <<>>, <<>>),
                       st, out, dg, link(st, out, dg))
    /\ Returned

TargetCode ==
    /\ Idle
    /\ \E h \in ComponentHandles, i \in Indexes, st \in Statuses, out \in Outs, dg \in Diags :
        last' = Answer(OnHandle("target_code", h, <<i>>, <<i>>),
                       st, out, dg, target_code(st, out, dg))
    /\ Returned

EntryPointCode ==
    /\ Idle
    /\ \E h \in ComponentHandles, i \in Indexes, st \in Statuses, out \in Outs, dg \in Diags :
        last' = Answer(OnHandle("entry_point_code", h, <<i, 0>>, <<i, 0>>),
                       st, out, dg, entry_point_code(st, out, dg))
    /\ Returned

TargetMetadata ==
    /\ Idle
    /\ \E h \in ComponentHandles, i \in Indexes, st \in Statuses, out \in Outs, dg \in Diags :
        last' = Answer(OnHandle("target_metadata", h, <<i>>, <<i>>),
                       st, out, dg, target_metadata(st, out, dg))
    /\ Returned

EntryPointMetadata ==
    /\ Idle
    /\ \E h \in ComponentHandles, i \in Indexes, st \in Statuses, out \in Outs, dg \in Diags :
        last' = Answer(OnHandle("entry_point_metadata", h, <<i, 0>>, <<i, 0>>),
                       st, out, dg, entry_point_metadata(st, out, dg))
    /\ Returned

FindEntryPointByName ==
    /\ Idle
    /\ \E p \in ObjPtrs, name \in NameInputs, st \in Statuses, out \in Outs :
        LET c == OnHandle("find_entry_point_by_name", Handle("Module", p), name,
                          CStringNew(name).bytes) IN
        last' = IF CStringNew(name).ok
                THEN Answer(c, st, out, NULL, find_entry_point_by_name(st, out))
                ELSE [c EXCEPT !.result = Panicked]
    /\ Returned

EntryPointByIndex ==
    /\ Idle
    /\ \E p \in ObjPtrs, i \in Indexes, st \in Statuses, out \in Outs :
        last' = Answer(OnHandle("entry_point_by_index", Handle("Module", p),
                                <<i>>, <<AsI32(i)>>),
                       st, out, NULL, entry_point_by_index(st, out))
    /\ Returned

----------------------------------------------------------------------------
(* Blob::as_slice / as_str and the Display, Clone and drop of utils::Error. *)

IsCont(b) ==
    b >= 128 /\ b <= 191

\* the number of bytes of the UTF-8 sequence starting at s[i], 0 when it is malformed
Utf8Width(s, i) ==
    LET b == s[i]
        n == Len(s)
    IN  IF b < 128 THEN 1
        ELSE IF b >= 194 /\ b <= 223
            THEN IF i + 1 <= n /\ IsCont(s[i + 1]) THEN 2 ELSE 0
        ELSE IF b >= 224 /\ b <= 239
            THEN IF /\ i + 2 <= n
                    /\ IsCont(s[i + 1]) /\ IsCont(s[i + 2])
                    /\ (b = 224 => s[i + 1] >= 160)
                    /\ (b = 237 => s[i + 1] <= 159)
                 THEN 3 ELSE 0
        ELSE IF b >= 240 /\ b <= 244
            THEN IF /\ i + 3 <= n
                    /\ IsCont(s[i + 1]) /\ IsCont(s[i + 2]) /\ IsCont(s[i + 3])
                    /\ (b = 240 => s[i + 1] >= 144)
                    /\ (b = 244 => s[i + 1] <= 143)
                 THEN 4 ELSE 0
        ELSE 0

RECURSIVE Utf8From(_, _)
Utf8From(s, i) ==
    IF i > Len(s) THEN TRUE
    ELSE IF Utf8Width(s, i) = 0 THEN FALSE
    ELSE Utf8From(s, i + Utf8Width(s, i))

\* std::str::from_utf8(bytes): Ok(text) or Err(Utf8Error)
from_utf8(bytes) ==
    IF Utf8From(bytes, 1) THEN [ok |-> TRUE, text |-> bytes]
    ELSE [ok |-> FALSE, text |-> <<>>]

\* Blob::as_slice on a non-null blob: getBufferPointer and getBufferSize
\* dispatched through self.0, then slice::from_raw_parts
as_slice(p) ==
    BlobBytes(p)

\* the same on a host blob object: the bytes it stores
as_slice_host(o) ==
    o.bytes

\* Blob::as_str
as_str(p) ==
    from_utf8(as_slice(p))

\* Result::unwrap_or("")
unwrap_or_empty(r) ==
    IF r.ok THEN r.text ELSE <<>>

RECURSIVE EscapeDebug(_)
EscapeDebug(t) ==
    IF t = <<>> THEN <<>>
    ELSE (IF Head(t) \in {34, 92} THEN <<92, Head(t)>> ELSE <<Head(t)>>)
         \o EscapeDebug(Tail(t))

\* "{:?}" of a &str of printable characters: quoted, with quote and backslash escaped
DebugStr(t) ==
    <<34>> \o EscapeDebug(t) \o <<34>>

\* whether formatting / cloning the error dispatches through its blob pointer
DispatchesThrough(e) ==
    e.err = "Blob"

\* #[error("{0}")] for Error::Result, #[error("{:?}", .0.as_str().unwrap_or(""))] for Error::Blob
DisplayOf(e) ==
    IF e.err = "Result" THEN [kind |-> "status", code |-> e.code, text |-> <<>>]
    ELSE [kind |-> "text", code |-> 0, text |-> DebugStr(unwrap_or_empty(as_str(e.ptr)))]

\* what a dispatch through a null object pointer can do: the read of the
\* vtable at address 0 faults, or yields whatever is there
NullDispatchOutcomes ==
    {[kind |-> "crash", code |-> 0, text |-> <<>>],
     [kind |-> "text", code |-> 0, text |-> DebugStr(<<>>)]}

\* format!("{}", err)
DisplayError ==
    /\ pc = "run"
    /\ errHeld.kind = "Err"
    /\ IF DispatchesThrough(errHeld) /\ errHeld.ptr = NULL
       THEN /\ nullSites' = nullSites \cup {"display"}
            /\ shown' \in NullDispatchOutcomes
            /\ pc' = IF shown'.kind = "crash" THEN "crashed" ELSE "run"
       ELSE /\ shown' = DisplayOf(errHeld)
            /\ UNCHANGED <<nullSites, pc>>
    /\ UNCHANGED <<last, errHeld, notFacade>>

\* err.clone(): derive(Clone), which for Error::Blob runs Blob::clone and so
\* dispatches add-reference through the blob pointer
CloneError ==
    /\ pc = "run"
    /\ errHeld.kind = "Err"
    /\ IF DispatchesThrough(errHeld) /\ errHeld.ptr = NULL
       THEN /\ nullSites' = nullSites \cup {"clone"}
            /\ pc' \in {"crashed", "run"}
       ELSE UNCHANGED <<nullSites, pc>>
    /\ UNCHANGED <<last, errHeld, shown, notFacade>>

\* drop(err): neither Error nor Blob implements Drop, nothing is dispatched
DropError ==
    /\ pc = "run"
    /\ errHeld.kind = "Err"
    /\ errHeld' = NoResult
    /\ last' = NoCall
    /\ shown' = NoShown
    /\ UNCHANGED <<nullSites, pc, notFacade>>

\* the caller lets go of a successful result: no handle type implements Drop
DropValue ==
    /\ pc = "run"
    /\ last.op # "none"
    /\ errHeld.kind # "Err"
    /\ last' = NoCall
    /\ UNCHANGED <<errHeld, shown, nullSites, pc, notFacade>>

FacadeNext ==
    \/ GlobalSessionNew
    \/ CreateSession
    \/ LoadModule
    \/ CreateComposite
    \/ IsParameterLocationUsed
    \/ Layout
    \/ Link
    \/ TargetCode
    \/ EntryPointCode
    \/ TargetMetadata
    \/ EntryPointMetadata
    \/ FindEntryPointByName
    \/ EntryPointByIndex
    \/ DisplayError
    \/ CloneError
    \/ DropError
    \/ DropValue

----------------------------------------------------------------------------
(* Claims about the facade operations, checked under SpecFacade.           *)

\* C1 (status polarity): whenever a facade operation received a native
\* status, a status < 0 gave a failure (Err, or None for
\* is_parameter_location_used) carrying no output value, and a status >= 0
\* gave a success (Ok / Some).
C1_StatusPolarity ==
    (last.op \in StatusOps /\ last.result.kind # "Panic") =>
        /\ last.status < 0 =>
              IF last.op = "is_parameter_location_used"
              THEN last.result = NoneBool
              ELSE last.result.kind = "Err" /\ errHeld = last.result
        /\ last.status >= 0 =>
              IF last.op = "is_parameter_location_used"
              THEN last.result = SomeBool(last.used)
              ELSE last.result.kind = "Ok" /\ errHeld = NoResult

\* the native call failed after writing `used = true`, and the facade returned None
C1_Witness ==
    /\ last.op = "is_parameter_location_used"
    /\ last.status < 0
    /\ last.used
    /\ last.result = NoneBool

\* C4 (two-tier error mapping), as claimed: for an operation with a
\* diagnostic out-parameter, a negative status with a non-null diagnostic
\* blob gives Error::Blob holding that blob, and a negative status with a
\* null diagnostic gives Error::Result carrying the status.
C4_TwoTierMapping ==
    (last.op \in DiagOps /\ last.status < 0) =>
        last.result = (IF last.diag # NULL THEN ErrBlob(last.diag)
                       ELSE ErrResult(last.status))

\* C5 (null blob error), as claimed: constructing, dropping and formatting a
\* blob-carrying error whose pointer is null never dispatches through the
\* null pointer.
C5_NullBlobErrorSafe ==
    "display" \notin nullSites

\* C12 (text decoding is not coerced), as claimed: Blob::as_str gives the
\* text of a blob whose bytes are UTF-8 and a decode error for one whose
\* bytes are not, and the text shown for an error carrying a non-null blob
\* is the blob's decoded text, never a text put in place of bytes that do
\* not decode.
C12_DecodeNotCoerced ==
    /\ as_str("diagText") = [ok |-> TRUE, text |-> BlobBytes("diagText")]
    /\ ~as_str("diagBad").ok
    /\ (errHeld.kind = "Err" /\ errHeld.err = "Blob" /\ errHeld.ptr # NULL
          /\ shown.kind = "text") =>
            /\ as_str(errHeld.ptr).ok
            /\ shown.text = DebugStr(as_str(errHeld.ptr).text)

\* C13 (no Ok around a null handle), as claimed: whenever create_session,
\* create_composite_component_type, link, target_code, entry_point_code,
\* target_metadata, entry_point_metadata, Module::find_entry_point_by_name
\* or Module::entry_point_by_index returned Ok, the pointer inside the
\* returned handle is not null, whatever status and out-parameter value the
\* native call answered with.
C13_NoOkAroundNull ==
    (/\ last.op \in {"create_session", "create_composite_component_type", "link",
                     "target_code", "entry_point_code", "target_metadata",
                     "entry_point_metadata", "find_entry_point_by_name",
                     "entry_point_by_index"}
     /\ last.result.kind = "Ok") =>
        last.result.ptr # NULL

\* C6 (load_module): load_module fails exactly when the native loadModule
\* returned a null module; the failure is Error::Blob holding the value of
\* the diagnostics out-parameter; otherwise the result is a Module wrapping
\* the returned pointer.
C6_LoadModule ==
    (last.op = "load_module" /\ last.result.kind # "Panic") =>
        /\ (last.result.kind = "Err") <=> (last.out = NULL)
        /\ last.out = NULL => last.result = ErrBlob(last.diag)
        /\ last.out # NULL => last.result = OkHandle("Module", last.out)

\* the native call returned no module and wrote a diagnostic blob
C6_Witness ==
    /\ last.op = "load_module"
    /\ last.out = NULL
    /\ last.diag = "diagText"
    /\ errHeld = ErrBlob("diagText")

\* C9 (capability widening): a ComponentType operation called through a
\* Module, EntryPoint or TypeConformance handle is dispatched on that
\* handle's own pointer, with the caller's arguments, and the widening makes
\* no add-reference or release call; so the native object answers as it does
\* when called through a ComponentType handle on the same pointer.
C9_Widening ==
    (last.via \in Narrow /\ last.op \in DiagOps \cup {"layout"}) =>
        /\ last.target = last.self
        /\ last.rc = 0
        /\ last.sent = last.args

\* link called through a Module handle on obj2 and answered with success
C9_Witness ==
    /\ last.op = "link"
    /\ last.via = "Module"
    /\ last.self = "obj2"
    /\ last.target = "obj2"
    /\ last.result = OkHandle("ComponentType", "obj1")

----------------------------------------------------------------------------
(* Handles and the objects behind them: construction from a raw pointer,   *)
(* the host blobs of From<&'static [u8]> and From<Vec<u8>>, Clone, drop    *)
(* and Blob::as_slice.                                                     *)

\* the most handle values made in one run
MaxHandles == 3

\* the null pointer among the addresses 1..Len(heap)
NullAddr == 0

\* the most objects allocated in one run
MaxObjs == 2

\* byte strings the caller builds blobs from
ByteInputs == {<<>>, <<84>>, <<84, 101>>}

\* the reference counts a native object may have when its pointer is handed out
InitialCounts == {1, 2}

\* an object: its kind, its reference count, the bytes it stores, whether its
\* storage was released, and what happened to it so far (initial count, the
\* bytes it was built from, add-reference / release slot calls, clones made)
Object(kind, count, bytes) ==
    [kind |-> kind, count |-> count, bytes |-> bytes, freed |-> FALSE,
     init |-> count, src |-> bytes, addRefs |-> 0, releases |-> 0, clones |-> 0]

\* the add-reference slot of the object's vtable: a native object and an
\* owned blob count up, a static blob does nothing
AddRefSlot(o) ==
    [o EXCEPT !.addRefs = @ + 1,
              !.count = IF o.kind = "static" THEN @ ELSE @ + 1]

\* the release slot of the object's vtable: counts down and gives the
\* storage back at zero; a static blob does nothing
ReleaseSlot(o) ==
    [o EXCEPT !.releases = @ + 1,
              !.count = IF o.kind = "static" THEN @ ELSE @ - 1,
              !.freed = (o.kind # "static" /\ o.count - 1 <= 0) \/ @,
              !.bytes = IF o.kind # "static" /\ o.count - 1 <= 0 THEN <<>> ELSE @]

\* Clone written as a plain copy of the pointer: no add-reference call
clone_copy(h, o) ==
    [handle |-> [ptr |-> h.ptr], obj |-> o]

\* $name::clone: add-reference dispatched through self.0, then Self(self.0)
clone(h, o) ==
    [handle |-> [ptr |-> h.ptr], obj |-> AddRefSlot(o)]

\* a handle with a Drop that releases its reference
drop_release(o) ==
    ReleaseSlot(o)

\* dropping a handle: define_interface! declares no Drop, the object is not touched
drop(o) ==
    o

\* Blob::from losing the pointer to the object it leaked
blob_from_null(addr) ==
    NullAddr

\* Blob(blob as *mut _ as *mut _): the handle holds the address of the leaked object
blob_from(addr) ==
    addr

NoSlice ==
    [h |-> 0, bytes |-> <<>>]

LiveHandles ==
    {i \in 1..Len(handles) : handles[i].live}

NewHandle(p, from) ==
    [ptr |-> p, live |-> TRUE, from |-> from]

\* Self(ptr) around a pointer the native library handed out, e.g. Ok(Self(session))
FromRaw ==
    /\ Len(heap) < MaxObjs
    /\ Len(handles) < MaxHandles
    /\ \E c \in InitialCounts :
        heap' = Append(heap, Object("native", c, <<>>))
    /\ handles' = Append(handles, NewHandle(Len(heap) + 1, 0))
    /\ UNCHANGED <<slice, notHandle>>

\* Blob::from(&'static [u8]): Box::leak of a StaticBlobImpl over the bytes
BlobFromStatic ==
    /\ Len(heap) < MaxObjs
    /\ Len(handles) < MaxHandles
    /\ \E b \in ByteInputs :
        heap' = Append(heap, Object("static", 1, b))
    /\ handles' = Append(handles, NewHandle(blob_from(Len(heap) + 1), 0))
    /\ UNCHANGED <<slice, notHandle>>

\* Blob::from(Vec<u8>): Box::leak of an OwnedBlobImpl that owns the bytes
BlobFromVec ==
    /\ Len(heap) < MaxObjs
    /\ Len(handles) < MaxHandles
    /\ \E b \in ByteInputs :
        heap' = Append(heap, Object("owned", 1, b))
    /\ handles' = Append(handles, NewHandle(blob_from(Len(heap) + 1), 0))
    /\ UNCHANGED <<slice, notHandle>>

\* h.clone()
CloneHandle ==
    /\ Len(handles) < MaxHandles
    /\ \E i \in LiveHandles :
        LET p == handles[i].ptr
            c == clone(handles[i], heap[p])
        IN  /\ heap' = [heap EXCEPT ![p] = [c.obj EXCEPT !.clones = @ + 1]]
            /\ handles' = Append(handles, NewHandle(c.handle.ptr, i))
    /\ UNCHANGED <<slice, notHandle>>

\* drop(h)
DropHandle ==
    /\ \E i \in LiveHandles :
        /\ heap' = [heap EXCEPT ![handles[i].ptr] = drop(@)]
        /\ handles' = [handles EXCEPT ![i].live = FALSE]
    /\ UNCHANGED <<slice, notHandle>>

\* what reading released storage can return
DanglingReads == {<<>>, <<0>>}

\* blob.as_slice(): getBufferPointer / getBufferSize through self.0
AsSlice ==
    /\ \E i \in LiveHandles :
        LET o == heap[handles[i].ptr] IN
        /\ o.kind \in {"static", "owned"}
        /\ IF o.freed
           THEN \E b \in DanglingReads : slice' = [h |-> i, bytes |-> b]
           ELSE slice' = [h |-> i, bytes |-> as_slice_host(o)]
    /\ UNCHANGED <<heap, handles, notHandle>>

HandleNext ==
    \/ FromRaw
    \/ BlobFromStatic
    \/ BlobFromVec
    \/ CloneHandle
    \/ DropHandle
    \/ AsSlice

\* C2 (clone adds a reference, nothing releases): every clone returned a
\* handle with the pointer of the handle it was made from; for every object
\* the add-reference slot was called once per clone and the release slot
\* never; so a native object's reference count is its initial count plus
\* the number of clones made of its handles.
C2_CloneAddsNeverReleases ==
    /\ \A i \in 1..Len(handles) :
          handles[i].from # 0 => handles[i].ptr = handles[handles[i].from].ptr
    /\ \A p \in 1..Len(heap) :
          /\ heap[p].releases = 0
          /\ heap[p].addRefs = heap[p].clones
          /\ heap[p].clones = Cardinality({i \in 1..Len(handles) :
                                              handles[i].ptr = p /\ handles[i].from # 0})
          /\ heap[p].kind = "native" => heap[p].count = heap[p].init + heap[p].clones

\* a native object handed out with count 2, cloned twice, every handle dropped
C2_Witness ==
    \E p \in 1..Len(heap) :
        /\ heap[p].kind = "native"
        /\ heap[p].init = 2
        /\ heap[p].clones = 2
        /\ heap[p].count = 4
        /\ \A i \in 1..Len(handles) : ~handles[i].live

\* C3 (clone preserves content): for a blob built from a static range or an
\* owned vector, as_slice through any living handle (the original or a clone,
\* also after the original was dropped) returns the bytes the blob was built
\* from, and no sequence of clones and drops releases the storage.
C3_ClonePreservesContent ==
    /\ \A p \in 1..Len(heap) :
          heap[p].kind \in {"static", "owned"} =>
              ~heap[p].freed /\ heap[p].bytes = heap[p].src
    /\ slice.h # 0 => slice.bytes = heap[handles[slice.h].ptr].src

\* an owned blob whose original handle was dropped, read through its clone
C3_Witness ==
    /\ slice.h # 0
    /\ handles[slice.h].from # 0
    /\ ~handles[handles[slice.h].from].live
    /\ heap[handles[slice.h].ptr].kind = "owned"
    /\ slice.bytes = <<84, 101>>

----------------------------------------------------------------------------
(* The virtual file system: SessionDesc::file_system installs a            *)
(* FileSystemImpl around the host's FileSystem, and the native library     *)
(* calls its load-file slot while it loads modules.                        *)

Paths == {"test1.slang", "nonexistent.slang"}

\* the files a host file system may hold (VirtualFS.files)
FileMaps ==
    UNION {[ps -> ByteInputs \ {<<>>}] : ps \in SUBSET Paths}

NoFs ==
    [installed |-> FALSE, files |-> <<>>]

NoFsCall ==
    [made |-> FALSE, path |-> "", hostOk |-> FALSE, hostPtr |-> NullAddr,
     hostCode |-> 0, status |-> S_OK, out |-> NullAddr]

\* VirtualFS::load_file: Ok(Blob::from(data.clone())) for a stored path, the
\* blob being the object about to be leaked at addr; Err(Error::Result(-1)) otherwise
load_file(files, path, addr) ==
    IF path \in DOMAIN files
    THEN [ok |-> TRUE, ptr |-> blob_from(addr), bytes |-> files[path], code |-> 0]
    ELSE [ok |-> FALSE, ptr |-> NullAddr, bytes |-> <<>>, code |-> -1]

\* the statuses the load-file slot may return for a host error
FailureStatuses ==
    {st \in Statuses : st < 0}

\* the load-file slot of FileSystemImpl: Ok(blob) writes the blob's pointer
\* to the out-parameter and returns success, Err returns a negative status
\* and leaves the out-parameter null
FileSystemImpl_loadFile(r, st) ==
    IF r.ok THEN [status |-> S_OK, out |-> r.ptr]
    ELSE [status |-> st, out |-> NullAddr]

\* SessionDesc::default().file_system(fs)
InstallFileSystem ==
    /\ \E files \in FileMaps :
        fsInstalled' = [installed |-> TRUE, files |-> files]
    /\ fsCall' = NoFsCall
    /\ UNCHANGED <<heap, notFs>>

\* the native library calls the load-file slot of the installed file system
NativeLoadFile ==
    /\ fsInstalled.installed
    /\ Len(heap) < MaxObjs
    /\ \E path \in Paths, st \in FailureStatuses :
        LET r == load_file(fsInstalled.files, path, Len(heap) + 1)
            a == FileSystemImpl_loadFile(r, st)
        IN  /\ heap' = IF r.ok THEN Append(heap, Object("owned", 1, r.bytes)) ELSE heap
            /\ fsCall' = [made |-> TRUE, path |-> path, hostOk |-> r.ok,
                          hostPtr |-> r.ptr, hostCode |-> r.code,
                          status |-> a.status, out |-> a.out]
    /\ UNCHANGED <<fsInstalled, notFs>>

FsNext ==
    \/ InstallFileSystem
    \/ NativeLoadFile

\* C7 (virtual file system bridge): whenever the native library invoked the
\* load-file slot, a host result Ok(blob) made the slot write that blob's
\* pointer, which is not null, to the out-parameter and return a status >= 0,
\* and a host result Err made it return a status < 0 with the out-parameter
\* null; success with a null out-parameter and failure with a non-null one
\* never happen.
C7_FileSystemBridge ==
    fsCall.made =>
        /\ fsCall.hostOk =>
              /\ fsCall.status >= 0
              /\ fsCall.out = fsCall.hostPtr
              /\ fsCall.out # NullAddr
              /\ fsCall.out \in 1..Len(heap)
              /\ heap[fsCall.out].bytes = fsInstalled.files[fsCall.path]
        /\ ~fsCall.hostOk => fsCall.status < 0 /\ fsCall.out = NullAddr
        /\ ~(fsCall.status >= 0 /\ fsCall.out = NullAddr)
        /\ ~(fsCall.status < 0 /\ fsCall.out # NullAddr)

\* one file loaded with success and then a missing file refused
C7_Witness ==
    /\ fsCall.made
    /\ ~fsCall.hostOk
    /\ fsCall.path = "nonexistent.slang"
    /\ fsCall.status = -1
    /\ Len(heap) = 1
    /\ heap[1].bytes = <<84, 101>>

----------------------------------------------------------------------------
(* CompilerOptions: the builder behind the option! setters.                *)

\* the most setter calls made on one builder
MaxCalls == 2

\* option!(Name, func(p: bool)): the setter and the CompilerOptionName it passes
BoolSetters ==
    {<<"matrix_layout_column", "MatrixLayoutColumn">>,
     <<"matrix_layout_row", "MatrixLayoutRow">>,
     <<"report_downstream_time", "ReportDownstreamTime">>,
     <<"report_perf_benchmark", "ReportPerfBenchmark">>,
     <<"skip_spirv_validation", "SkipSPIRVValidation">>,
     <<"default_image_format_unknown", "DefaultImageFormatUnknown">>,
     <<"disable_dynamic_dispatch", "DisableDynamicDispatch">>,
     <<"disable_specialization", "DisableSpecialization">>,
     <<"obfuscate", "Obfuscate">>,
     <<"vulkan_use_entry_point_name", "VulkanUseEntryPointName">>,
     <<"glsl_force_scalar_layout", "GLSLForceScalarLayout">>,
     <<"emit_spirv_directly", "EmitSpirvDirectly">>,
     <<"no_code_gen", "NoCodeGen">>, <<"no_mangle", "NoMangle">>,
     <<"validate_uniformity", "ValidateUniformity">>}

\* option!(Name, func(p: T)) with T an enumeration of the native API
EnumSetters ==
    {<<"language", "Language">>, <<"stage", "Stage">>,
     <<"target", "Target">>, <<"floating_point_mode", "FloatingPointMode">>,
     <<"debug_information", "DebugInformation">>,
     <<"line_directive_mode", "LineDirectiveMode">>,
     <<"optimization", "Optimization">>}

\* option!(Name, func(p: &str))
Str1Setters ==
    {<<"include", "Include">>, <<"warnings_as_errors", "WarningsAsErrors">>,
     <<"disable_warnings", "DisableWarnings">>,
     <<"enable_warning", "EnableWarning">>,
     <<"disable_warning", "DisableWarning">>}

\* option!(Name, func(p1: &str, p2: &str))
Str2Setters ==
    {<<"macro_define", "MacroDefine">>}

\* values of the enumeration arguments
EnumInputs == {0, 3}

\* values of ProfileID / CapabilityID
IdInputs == {0, 5}

\* string arguments: "", "a" and a string with a NUL in it
StrInputs == {<<>>, <<97>>, <<97, 0>>}

\* `enable as _` on a bool
BoolAsI32(b) ==
    IF b THEN 1 ELSE 0

\* sys::slang_CompilerOptionEntry { name, value: slang_CompilerOptionValue { .. } }
Entry(name, kind, i0, i1, s0, s1) ==
    [name |-> name, kind |-> kind, intValue0 |-> i0, intValue1 |-> i1,
     stringValue0 |-> s0, stringValue1 |-> s1]

\* CompilerOptions { strings, options }; panicked when a setter unwound
Builder(strs, opts) ==
    [strings |-> strs, options |-> opts, panicked |-> FALSE]

\* the builder after a panic unwound through the setter that owned it
Unwound ==
    [strings |-> <<>>, options |-> <<>>, panicked |-> TRUE]

\* push_ints with the two integers in each other's place
push_ints_swapped(b, name, i0, i1) ==
    [b EXCEPT !.options = Append(@, Entry(name, "Int", i1, i0, NullAddr, NullAddr))]

push_ints(b, name, i0, i1) ==
    [b EXCEPT !.options = Append(@, Entry(name, "Int", i0, i1, NullAddr, NullAddr))]

\* push_strings writing over the entry list instead of pushing onto it
push_strings_reset(b, name, s0, s1) ==
    [b EXCEPT !.options = <<Entry(name, "String", 0, 0, s0, s1)>>]

push_strings(b, name, s0, s1) ==
    [b EXCEPT !.options = Append(@, Entry(name, "String", 0, 0, s0, s1))]

\* CString::as_ptr of the CString allocated next: the address of its buffer,
\* which stays where it is when the CString is moved into the Vec
NewAddr(b) ==
    Len(b.strings) + 1

\* self.strings.push(s0) for the CString with bytes c allocated at NewAddr
PushString(b, c) ==
    [b EXCEPT !.strings = Append(@, [addr |-> NewAddr(b), bytes |-> c])]

push_str1(b, name, s0) ==
    LET c0 == CStringNew(s0) IN
    IF ~c0.ok THEN Unwound
    ELSE push_strings(PushString(b, c0.bytes), name, NewAddr(b), NullAddr)

push_str2(b, name, s0, s1) ==
    LET c0 == CStringNew(s0)
        c1 == CStringNew(s1)
    IN  IF ~c0.ok \/ ~c1.ok THEN Unwound
        ELSE LET b0 == PushString(b, c0.bytes)
                 b1 == PushString(b0, c1.bytes)
             IN  push_strings(b1, name, NewAddr(b), NewAddr(b0))

\* the three arms of option!
option_int(b, name, v) ==
    push_ints(b, name, v, 0)

option_str1(b, name, s0) ==
    push_str1(b, name, s0)

option_str2(b, name, s0, s1) ==
    push_str2(b, name, s0, s1)

\* CompilerOptions::profile / CompilerOptions::capability
option_id(b, name, id) ==
    push_ints(b, name, AsI32(id), 0)

NoOptCall ==
    [made |-> FALSE, func |-> "", shape |-> "", barg |-> FALSE, iarg |-> 0,
     s0 |-> <<>>, s1 |-> <<>>, before |-> 0, stringsBefore |-> 0, panicked |-> FALSE]

OptCall(func, shape) ==
    [NoOptCall EXCEPT !.made = TRUE, !.func = func, !.shape = shape,
                      !.before = Len(options), !.stringsBefore = Len(strings)]

\* a setter may be called on a builder that exists and has room left in the model
CanSet ==
    /\ ~optCall.panicked
    /\ Len(options) < MaxCalls

\* the builder the setter returned replaces the one it consumed
SetterReturns(b, call) ==
    /\ strings' = b.strings
    /\ options' = b.options
    /\ optCall' = [call EXCEPT !.panicked = b.panicked]
    /\ UNCHANGED notOpt

SetBoolOption ==
    /\ CanSet
    /\ \E f \in BoolSetters, v \in BOOLEAN :
        SetterReturns(option_int(Builder(strings, options), f[2], BoolAsI32(v)),
                      [OptCall(f[1], "bool") EXCEPT !.barg = v])

SetEnumOption ==
    /\ CanSet
    /\ \E f \in EnumSetters, v \in EnumInputs :
        SetterReturns(option_int(Builder(strings, options), f[2], v),
                      [OptCall(f[1], "enum") EXCEPT !.iarg = v])

SetProfile ==
    /\ CanSet
    /\ \E v \in IdInputs :
        SetterReturns(option_id(Builder(strings, options), "Profile", v),
                      [OptCall("profile", "id") EXCEPT !.iarg = v])

SetCapability ==
    /\ CanSet
    /\ \E v \in IdInputs :
        SetterReturns(option_id(Builder(strings, options), "Capability", v),
                      [OptCall("capability", "id") EXCEPT !.iarg = v])

SetStr1Option ==
    /\ CanSet
    /\ \E f \in Str1Setters, t \in StrInputs :
        SetterReturns(option_str1(Builder(strings, options), f[2], t),
                      [OptCall(f[1], "str1") EXCEPT !.s0 = t])

SetStr2Option ==
    /\ CanSet
    /\ \E f \in Str2Setters, t \in StrInputs, u \in StrInputs :
        SetterReturns(option_str2(Builder(strings, options), f[2], t, u),
                      [OptCall(f[1], "str2") EXCEPT !.s0 = t, !.s1 = u])

OptNext ==
    \/ SetBoolOption
    \/ SetEnumOption
    \/ SetProfile
    \/ SetCapability
    \/ SetStr1Option
    \/ SetStr2Option

\* the text a C reader finds at address p: the bytes of the CString whose
\* buffer is at p, up to its terminating NUL; <<-1>> when no buffer is there
TextAt(p) ==
    IF \E k \in 1..Len(strings) : strings[k].addr = p
    THEN LET k == CHOOSE k \in 1..Len(strings) : strings[k].addr = p
         IN  SubSeq(strings[k].bytes, 1, Len(strings[k].bytes) - 1)
    ELSE <<-1>>

\* the CompilerOptionName each setter stands for
C8_NameOf(func) ==
    CASE func = "macro_define" -> "MacroDefine"
      [] func = "include" -> "Include"
      [] func = "warnings_as_errors" -> "WarningsAsErrors"
      [] func = "disable_warnings" -> "DisableWarnings"
      [] func = "enable_warning" -> "EnableWarning"
      [] func = "disable_warning" -> "DisableWarning"
      [] func = "language" -> "Language"
      [] func = "stage" -> "Stage"
      [] func = "target" -> "Target"
      [] func = "floating_point_mode" -> "FloatingPointMode"
      [] func = "debug_information" -> "DebugInformation"
      [] func = "line_directive_mode" -> "LineDirectiveMode"
      [] func = "optimization" -> "Optimization"
      [] func = "matrix_layout_column" -> "MatrixLayoutColumn"
      [] func = "matrix_layout_row" -> "MatrixLayoutRow"
      [] func = "report_downstream_time" -> "ReportDownstreamTime"
      [] func = "report_perf_benchmark" -> "ReportPerfBenchmark"
      [] func = "skip_spirv_validation" -> "SkipSPIRVValidation"
      [] func = "default_image_format_unknown" -> "DefaultImageFormatUnknown"
      [] func = "disable_dynamic_dispatch" -> "DisableDynamicDispatch"
      [] func = "disable_specialization" -> "DisableSpecialization"
      [] func = "obfuscate" -> "Obfuscate"
      [] func = "vulkan_use_entry_point_name" -> "VulkanUseEntryPointName"
      [] func = "glsl_force_scalar_layout" -> "GLSLForceScalarLayout"
      [] func = "emit_spirv_directly" -> "EmitSpirvDirectly"
      [] func = "no_code_gen" -> "NoCodeGen"
      [] func = "no_mangle" -> "NoMangle"
      [] func = "validate_uniformity" -> "ValidateUniformity"
      [] func = "profile" -> "Profile"
      [] func = "capability" -> "Capability"
      [] OTHER -> "?"

\* C8 (option builder): every setter call that returned appended exactly
\* one entry; its name is the setter's option name; an integer setter gave
\* kind Int with intValue0 the argument, intValue1 0 and both string
\* pointers null; a string setter gave kind String with both integers 0,
\* stringValue0 pointing at the first argument's text and stringValue1 at
\* the second argument's text, or null for a one-string setter.
C8_OneTaggedEntry ==
    (optCall.made /\ ~optCall.panicked) =>
        /\ Len(options) = optCall.before + 1
        /\ LET e == options[Len(options)] IN
           /\ e.name = C8_NameOf(optCall.func)
           /\ optCall.shape \in {"bool", "enum", "id"} =>
                 /\ e.kind = "Int"
                 /\ e.intValue0 = (IF optCall.shape = "bool"
                                   THEN (IF optCall.barg THEN 1 ELSE 0)
                                   ELSE optCall.iarg)
                 /\ e.intValue1 = 0
                 /\ e.stringValue0 = NullAddr
                 /\ e.stringValue1 = NullAddr
           /\ optCall.shape \in {"str1", "str2"} =>
                 /\ e.kind = "String"
                 /\ e.intValue0 = 0
                 /\ e.intValue1 = 0
                 /\ e.stringValue0 # NullAddr
                 /\ TextAt(e.stringValue0) = optCall.s0
                 /\ IF optCall.shape = "str1"
                    THEN e.stringValue1 = NullAddr
                    ELSE e.stringValue1 # NullAddr /\ TextAt(e.stringValue1) = optCall.s1

\* optimization(3) followed by macro_define("a", "")
C8_Witness ==
    /\ optCall.made
    /\ optCall.func = "macro_define"
    /\ optCall.s0 = <<97>>
    /\ optCall.s1 = <<>>
    /\ Len(options) = 2
    /\ options[1] = Entry("Optimization", "Int", 3, 0, NullAddr, NullAddr)
    /\ options[2] = Entry("MacroDefine", "String", 0, 0, 1, 2)

\* the string arguments of a setter call, in the order they were given
C14_StringArgs(c) ==
    CASE c.shape = "str1" -> <<c.s0>>
      [] c.shape = "str2" -> <<c.s0, c.s1>>
      [] OTHER -> <<>>

\* the first n elements of sequence q are the sequence p
C14_Extends(q, p) ==
    Len(q) >= Len(p) /\ SubSeq(q, 1, Len(p)) = p

\* C14 (append-only, self-contained builder): every setter call that
\* returned left the earlier entries and strings as they were, added one
\* entry at the end of the entry list, and added to the string list one
\* NUL-terminated string per string argument, in argument order; at all
\* times the strings of the list have distinct buffer addresses and every
\* non-null string pointer of every entry is the buffer address of a string
\* in the same builder's string list.
C14_AppendOnly ==
    /\ [](~optCall.panicked =>
            /\ \A i, j \in 1..Len(strings) :
                  i # j => strings[i].addr # strings[j].addr
            /\ \A k \in 1..Len(options) :
                  \A q \in {options[k].stringValue0, options[k].stringValue1} :
                      q # NullAddr => \E j \in 1..Len(strings) : strings[j].addr = q)
    /\ [][(optCall' # optCall /\ ~optCall'.panicked) =>
            /\ Len(options') = Len(options) + 1
            /\ C14_Extends(options', options)
            /\ C14_Extends(strings', strings)
            /\ LET m == Len(strings)
                   args == C14_StringArgs(optCall')
               IN  /\ Len(strings') = m + Len(args)
                   /\ \A k \in 1..Len(args) :
                         strings'[m + k].bytes = Append(args[k], 0)]_vars

\* include("a") followed by macro_define("", "a"): three strings owned, the
\* first entry still pointing at the first of them
C14_Witness ==
    /\ ~optCall.panicked
    /\ Len(options) = 2
    /\ options[1] = Entry("Include", "String", 0, 0, 1, NullAddr)
    /\ options[2] = Entry("MacroDefine", "String", 0, 0, 2, 3)
    /\ Len(strings) = 3
    /\ strings[1] = [addr |-> 1, bytes |-> <<97, 0>>]
    /\ strings[2] = [addr |-> 2, bytes |-> <<0>>]
    /\ strings[3] = [addr |-> 3, bytes |-> <<97, 0>>]

----------------------------------------------------------------------------
(* The lazy index sequences: Module::entry_points and                      *)
(* ProgramLayout::parameters / type_parameters / entry_points, each        *)
(* (0..count).map(fetch by index).                                         *)

\* the largest count the native side reports
MaxCount == 2

\* the most sequences created in one run
MaxSequences == 2

\* the methods that return a sequence; the first fetches through
\* Module::entry_point_by_index, the others through a reflection accessor
SequenceKinds ==
    {"Module::entry_points", "ProgramLayout::parameters",
     "ProgramLayout::type_parameters", "ProgramLayout::entry_points"}

\* the pointers a native by-index accessor returns
ElementPtrs == {NULL, "elem1", "elem2"}

\* `count as u32` on the signed count the native side reports: the value
\* itself when it is not negative, 2^32 more when it is
AsU32(n) ==
    IF n >= 0 THEN n ELSE n + 2147483647 + 2147483647 + 2

\* a range that also yields its upper end
range_next_inclusive(pos, count) ==
    IF pos <= count THEN [some |-> TRUE, i |-> pos, pos |-> pos + 1]
    ELSE [some |-> FALSE, i |-> 0, pos |-> pos]

\* Range<u32>::next on pos..count
range_next(pos, count) ==
    IF pos < count THEN [some |-> TRUE, i |-> pos, pos |-> pos + 1]
    ELSE [some |-> FALSE, i |-> 0, pos |-> pos]

NoIter ==
    [state |-> "none", kind |-> "none", made |-> 0, nativeCount |-> 0,
     count |-> 0, pos |-> 0, yielded |-> <<>>]

\* the method is called: the count is read from the native side and the
\* range starts at 0; no element is fetched
CreateSequence ==
    /\ iter.state # "panicked"
    /\ iter.made < MaxSequences
    /\ \E kind \in SequenceKinds, n \in 0..MaxCount :
        iter' = [NoIter EXCEPT !.state = "active", !.kind = kind,
                               !.made = iter.made + 1, !.nativeCount = n,
                               !.count = AsU32(n)]
    /\ fetchLog' = <<>>
    /\ UNCHANGED notIter

\* next() on Module::entry_points(): the range yields the next index and the
\* closure runs self.entry_point_by_index(i).unwrap()
NextEntryPoint ==
    /\ iter.state = "active"
    /\ iter.kind = "Module::entry_points"
    /\ LET r == range_next(iter.pos, iter.count) IN
       IF ~r.some
       THEN /\ iter' = [iter EXCEPT !.state = "done"]
            /\ UNCHANGED fetchLog
       ELSE \E st \in Statuses, out \in ElementPtrs :
            LET e == entry_point_by_index(st, out) IN
            /\ fetchLog' = Append(fetchLog, AsI32(r.i))
            /\ iter' = IF e.kind = "Err"
                       THEN [iter EXCEPT !.state = "panicked"]
                       ELSE [iter EXCEPT !.pos = r.pos,
                                         !.yielded = Append(@, [index |-> r.i, ptr |-> e.ptr])]
    /\ UNCHANGED notIter

\* next() on a ProgramLayout sequence: the range yields the next index and
\* the closure turns the pointer the accessor returns into a reference
NextReflection ==
    /\ iter.state = "active"
    /\ iter.kind # "Module::entry_points"
    /\ LET r == range_next(iter.pos, iter.count) IN
       IF ~r.some
       THEN /\ iter' = [iter EXCEPT !.state = "done"]
            /\ UNCHANGED fetchLog
       ELSE \E out \in ElementPtrs :
            /\ fetchLog' = Append(fetchLog, r.i)
            /\ iter' = [iter EXCEPT !.pos = r.pos,
                                    !.yielded = Append(@, [index |-> r.i, ptr |-> out])]
    /\ UNCHANGED notIter

IterNext ==
    \/ CreateSequence
    \/ NextEntryPoint
    \/ NextReflection

\* C10 (lazy finite sequences): a sequence holds the count read from the
\* native side when it was created; the elements it yielded are those of
\* indexes 0, 1, .. in ascending order, never more than count, and exactly
\* count once it is exhausted; the native side was asked once for each
\* consumed index, in that order, and for none ahead of consumption (a
\* fetch answered with a failure status ends the sequence with a panic
\* instead of an element); a sequence created anew starts at index 0.
C10_LazySequence ==
    iter.state # "none" =>
        /\ iter.count = iter.nativeCount
        /\ iter.pos = Len(iter.yielded)
        /\ iter.pos <= iter.count
        /\ \A k \in 1..Len(iter.yielded) : iter.yielded[k].index = k - 1
        /\ \A k \in 1..Len(fetchLog) : fetchLog[k] = k - 1
        /\ Len(fetchLog) = iter.pos + (IF iter.state = "panicked" THEN 1 ELSE 0)
        /\ iter.state = "done" => Len(iter.yielded) = iter.count

\* a second sequence over two elements, consumed to its end
C10_Witness ==
    /\ iter.made = 2
    /\ iter.kind = "Module::entry_points"
    /\ iter.state = "done"
    /\ iter.count = 2
    /\ fetchLog = <<0, 1>>
    /\ Len(iter.yielded) = 2

----------------------------------------------------------------------------
(* ProgramLayout lookups by index and by name (reflection/shader.rs).      *)

\* the most lookups made in one run
MaxLookups == 2

\* what a native reflection accessor returns: null or a pointer to reflection data
ReflPtrs == {NULL, "refl1", "refl2"}

\* what spReflection_getHashedString returns: null, or a pointer to the
\* bytes of a string; "strBad" stands for bytes that are not UTF-8
HashedPtrs == {NULL, "strText", "strWide", "strBad"}

HashedBytes(p) ==
    CASE p = "strText" -> <<104, 105>>
      [] p = "strWide" -> <<195, 169>>
      [] p = "strBad" -> <<255>>
      [] OTHER -> <<>>

\* the lookups by index and by name that go through rcall!(.. as Option<&T>)
IndexLookups ==
    {"parameter_by_index", "type_parameter_by_index", "entry_point_by_index"}

NameLookups ==
    {"find_type_parameter_by_name", "find_entry_point_by_name",
     "find_type_by_name", "find_function_by_name"}

\* None
NoneRef ==
    [kind |-> "None", ty |-> "none", ptr |-> NULL, text |-> <<>>]

\* Some(&T) with the reference made from pointer p
SomeRef(ty, p) ==
    [kind |-> "Some", ty |-> ty, ptr |-> p, text |-> <<>>]

\* Some(&str) over the bytes at p
SomeStr(p, t) ==
    [kind |-> "Some", ty |-> "str", ptr |-> p, text |-> t]

\* the lookup unwound with a panic
PanicRef ==
    [kind |-> "Panic", ty |-> "none", ptr |-> NULL, text |-> <<>>]

\* rcall!(f(self.0, ..) as Option<&T>): the native pointer, absent when null
rcall_option(ty, p) ==
    IF p = NULL THEN NoneRef ELSE SomeRef(ty, p)

parameter_by_index(p) ==
    rcall_option("VariableLayout", p)

type_parameter_by_index(p) ==
    rcall_option("TypeParameter", p)

ProgramLayout_entry_point_by_index(p) ==
    rcall_option("EntryPoint", p)

find_type_parameter_by_name(name, p) ==
    IF ~CStringNew(name).ok THEN PanicRef ELSE rcall_option("TypeParameter", p)

ProgramLayout_find_entry_point_by_name(name, p) ==
    IF ~CStringNew(name).ok THEN PanicRef ELSE rcall_option("EntryPoint", p)

find_type_by_name(name, p) ==
    IF ~CStringNew(name).ok THEN PanicRef ELSE rcall_option("Type", p)

find_function_by_name(name, p) ==
    IF ~CStringNew(name).ok THEN PanicRef ELSE rcall_option("Function", p)

\* slice::from_raw_parts(result as *const u8, len)
from_raw_parts(p, len) ==
    SubSeq(HashedBytes(p), 1, len)

\* hashed_string without the null test: a &str made from whatever came back
hashed_string_unchecked(p, len) ==
    LET t == from_utf8(from_raw_parts(p, len)) IN
    IF t.ok THEN SomeStr(p, t.text) ELSE PanicRef

\* (!result.is_null()).then(|| from_utf8(from_raw_parts(result, len)).unwrap())
hashed_string(p, len) ==
    IF p = NULL THEN NoneRef
    ELSE LET t == from_utf8(from_raw_parts(p, len)) IN
         IF t.ok THEN SomeStr(p, t.text) ELSE PanicRef

ByIndex(f, p) ==
    CASE f = "parameter_by_index" -> parameter_by_index(p)
      [] f = "type_parameter_by_index" -> type_parameter_by_index(p)
      [] f = "entry_point_by_index" -> ProgramLayout_entry_point_by_index(p)

ByName(f, name, p) ==
    CASE f = "find_type_parameter_by_name" -> find_type_parameter_by_name(name, p)
      [] f = "find_entry_point_by_name" -> ProgramLayout_find_entry_point_by_name(name, p)
      [] f = "find_type_by_name" -> find_type_by_name(name, p)
      [] f = "find_function_by_name" -> find_function_by_name(name, p)

\* one lookup: the function, its argument, the pointer (and length) the
\* native accessor answered with, and what the lookup returned
Lookup(f, arg, p, len, r) ==
    [func |-> f, arg |-> arg, native |-> p, len |-> len, result |-> r]

\* a lookup can be made while no earlier one panicked
CanLookup ==
    /\ Len(lookups) < MaxLookups
    /\ \A k \in 1..Len(lookups) : lookups[k].result.kind # "Panic"

LookupByIndex ==
    /\ CanLookup
    /\ \E f \in IndexLookups, i \in Indexes, p \in ReflPtrs :
        lookups' = Append(lookups, Lookup(f, <<i>>, p, 0, ByIndex(f, p)))
    /\ UNCHANGED notLookup

LookupByName ==
    /\ CanLookup
    /\ \E f \in NameLookups, name \in NameInputs, p \in ReflPtrs :
        lookups' = Append(lookups, Lookup(f, name, p, 0, ByName(f, name, p)))
    /\ UNCHANGED notLookup

HashedString ==
    /\ CanLookup
    /\ \E i \in Indexes, p \in HashedPtrs :
        \E len \in 0..Len(HashedBytes(p)) :
            lookups' = Append(lookups,
                              Lookup("hashed_string", <<i>>, p, len, hashed_string(p, len)))
    /\ UNCHANGED notLookup

LookupNext ==
    \/ LookupByIndex
    \/ LookupByName
    \/ HashedString

\* the type each lookup hands out a reference to
C11_TypeOf(f) ==
    CASE f \in {"parameter_by_index"} -> "VariableLayout"
      [] f \in {"type_parameter_by_index", "find_type_parameter_by_name"} -> "TypeParameter"
      [] f \in {"entry_point_by_index", "find_entry_point_by_name"} -> "EntryPoint"
      [] f = "find_type_by_name" -> "Type"
      [] f = "find_function_by_name" -> "Function"
      [] f = "hashed_string" -> "str"
      [] OTHER -> "?"

\* C11 (lookup absence is optional): every ProgramLayout lookup that
\* returned gave None exactly when the native accessor answered null and
\* otherwise Some of a reference of the lookup's type to the object the
\* native accessor pointed at; no lookup gave an Ok or an Err, and none
\* gave a reference made from a null pointer.
C11_LookupAbsence ==
    \A k \in 1..Len(lookups) :
        LET c == lookups[k] IN
        /\ c.result.kind \in {"None", "Some", "Panic"}
        /\ c.result.kind # "Panic" =>
              /\ (c.result.kind = "None") <=> (c.native = NULL)
              /\ c.native # NULL =>
                    /\ c.result.kind = "Some"
                    /\ c.result.ptr = c.native
                    /\ c.result.ty = C11_TypeOf(c.func)
              /\ ~(c.result.kind = "Some" /\ c.result.ptr = NULL)

\* a name not found, then a hashed string found
C11_Witness ==
    /\ Len(lookups) = 2
    /\ lookups[1].func = "find_type_by_name"
    /\ lookups[1].native = NULL
    /\ lookups[1].result = NoneRef
    /\ lookups[2].func = "hashed_string"
    /\ lookups[2].native = "strText"
    /\ lookups[2].result = SomeStr("strText", <<104, 105>>)

----------------------------------------------------------------------------
(* The descriptor builders: TargetDesc and SessionDesc.                    *)

\* std::mem::size_of of the two native structs
SizeOfTargetDesc == "size_of::<sys::slang_TargetDesc>()"

SizeOfSessionDesc == "size_of::<sys::slang_SessionDesc>()"

\* a slice argument: where its elements are and how many there are; an
\* empty slice has a non-null pointer
TargetSlices ==
    {[ptr |-> "targets0", len |-> 0], [ptr |-> "targets2", len |-> 2]}

PathSlices ==
    {[ptr |-> "paths1", len |-> 1], [ptr |-> "paths2", len |-> 2]}

\* a &CompilerOptions argument: options.options.as_ptr() and options.options.len()
OptionsArgs ==
    {[ptr |-> "entries1", len |-> 1], [ptr |-> "entries2", len |-> 2]}

\* the FileSystemImpl objects Box::leak hands out
FsImplPtrs == {"fsImpl1", "fsImpl2"}

\* CompileTarget values
FormatInputs == {1, 6}

\* TargetDesc::default(): structureSize set, everything else zeroed; rest
\* stands for the fields no setter names
TargetDesc_default ==
    [structureSize |-> SizeOfTargetDesc, format |-> 0, profile |-> 0,
     compilerOptionEntries |-> NULL, compilerOptionEntryCount |-> 0, rest |-> 0]

TargetDesc_format(d, format) ==
    [d EXCEPT !.format = format]

TargetDesc_profile(d, profile) ==
    [d EXCEPT !.profile = profile]

TargetDesc_options(d, o) ==
    [d EXCEPT !.compilerOptionEntries = o.ptr, !.compilerOptionEntryCount = o.len]

\* SessionDesc::default()
SessionDesc_default ==
    [structureSize |-> SizeOfSessionDesc, targets |-> NULL, targetCount |-> 0,
     searchPaths |-> NULL, searchPathCount |-> 0, fileSystem |-> NULL,
     compilerOptionEntries |-> NULL, compilerOptionEntryCount |-> 0, rest |-> 0]

SessionDesc_targets(d, targets) ==
    [d EXCEPT !.targets = targets.ptr, !.targetCount = targets.len]

\* search_paths storing the length as the target count
SessionDesc_search_paths_count(d, paths) ==
    [d EXCEPT !.searchPaths = paths.ptr, !.targetCount = paths.len]

SessionDesc_search_paths(d, paths) ==
    [d EXCEPT !.searchPaths = paths.ptr, !.searchPathCount = paths.len]

SessionDesc_options(d, o) ==
    [d EXCEPT !.compilerOptionEntries = o.ptr, !.compilerOptionEntryCount = o.len]

\* file_system: the argument is the leaked FileSystemImpl around the host object
SessionDesc_file_system(d, impl) ==
    [d EXCEPT !.fileSystem = impl]

NoDescCall ==
    [made |-> FALSE, on |-> "", setter |-> "", ptr |-> NULL, len |-> 0, val |-> 0,
     targetBefore |-> TargetDesc_default, sessionBefore |-> SessionDesc_default]

\* a builder call with the descriptors as they are before it
DescCall(on, setter) ==
    [NoDescCall EXCEPT !.made = TRUE, !.on = on, !.setter = setter,
                       !.targetBefore = targetDesc, !.sessionBefore = sessionDesc]

TargetDescDefault ==
    /\ targetDesc' = TargetDesc_default
    /\ descCall' = DescCall("target", "default")
    /\ UNCHANGED <<sessionDesc, notDesc>>

TargetDescFormat ==
    /\ \E f \in FormatInputs :
        /\ targetDesc' = TargetDesc_format(targetDesc, f)
        /\ descCall' = [DescCall("target", "format") EXCEPT !.val = f]
    /\ UNCHANGED <<sessionDesc, notDesc>>

TargetDescProfile ==
    /\ \E id \in IdInputs :
        /\ targetDesc' = TargetDesc_profile(targetDesc, id)
        /\ descCall' = [DescCall("target", "profile") EXCEPT !.val = id]
    /\ UNCHANGED <<sessionDesc, notDesc>>

TargetDescOptions ==
    /\ \E o \in OptionsArgs :
        /\ targetDesc' = TargetDesc_options(targetDesc, o)
        /\ descCall' = [DescCall("target", "options") EXCEPT !.ptr = o.ptr, !.len = o.len]
    /\ UNCHANGED <<sessionDesc, notDesc>>

SessionDescDefault ==
    /\ sessionDesc' = SessionDesc_default
    /\ descCall' = DescCall("session", "default")
    /\ UNCHANGED <<targetDesc, notDesc>>

SessionDescTargets ==
    /\ \E t \in TargetSlices :
        /\ sessionDesc' = SessionDesc_targets(sessionDesc, t)
        /\ descCall' = [DescCall("session", "targets") EXCEPT !.ptr = t.ptr, !.len = t.len]
    /\ UNCHANGED <<targetDesc, notDesc>>

SessionDescSearchPaths ==
    /\ \E t \in PathSlices :
        /\ sessionDesc' = SessionDesc_search_paths(sessionDesc, t)
        /\ descCall' = [DescCall("session", "search_paths") EXCEPT !.ptr = t.ptr, !.len = t.len]
    /\ UNCHANGED <<targetDesc, notDesc>>

SessionDescOptions ==
    /\ \E o \in OptionsArgs :
        /\ sessionDesc' = SessionDesc_options(sessionDesc, o)
        /\ descCall' = [DescCall("session", "options") EXCEPT !.ptr = o.ptr, !.len = o.len]
    /\ UNCHANGED <<targetDesc, notDesc>>

SessionDescFileSystem ==
    /\ \E impl \in FsImplPtrs :
        /\ sessionDesc' = SessionDesc_file_system(sessionDesc, impl)
        /\ descCall' = [DescCall("session", "file_system") EXCEPT !.ptr = impl]
    /\ UNCHANGED <<targetDesc, notDesc>>

DescNext ==
    \/ TargetDescDefault
    \/ TargetDescFormat
    \/ TargetDescProfile
    \/ TargetDescOptions
    \/ SessionDescDefault
    \/ SessionDescTargets
    \/ SessionDescSearchPaths
    \/ SessionDescOptions
    \/ SessionDescFileSystem

\* records a and b agree on every field outside the set fields
C15_SameExcept(a, b, fields) ==
    /\ DOMAIN a = DOMAIN b
    /\ \A f \in DOMAIN a \ fields : a[f] = b[f]

\* the fields that hold a pointer
C15_PointerFields ==
    {"targets", "searchPaths", "fileSystem", "compilerOptionEntries"}

\* every field but structureSize is zero or null
C15_Zeroed(d) ==
    \A f \in DOMAIN d \ {"structureSize"} :
        IF f \in C15_PointerFields THEN d[f] = NULL ELSE d[f] = 0

\* C15 (descriptor builders): both descriptors always carry the size of
\* their native struct in structureSize; a default descriptor has every
\* other field zero or null; a setter leaves the other descriptor and every
\* field it does not name as they were and stores its argument in the
\* fields it names, whatever they held before (the last call wins), pointer
\* and count both from that one argument.
C15_DescriptorBuilders ==
    /\ targetDesc.structureSize = SizeOfTargetDesc
    /\ sessionDesc.structureSize = SizeOfSessionDesc
    /\ descCall.made =>
        LET c == descCall
            t == targetDesc
            d == sessionDesc
        IN  /\ c.on = "target" => d = c.sessionBefore
            /\ c.on = "session" => t = c.targetBefore
            /\ c.setter = "default" =>
                  IF c.on = "target" THEN C15_Zeroed(t) ELSE C15_Zeroed(d)
            /\ (c.on = "target" /\ c.setter = "format") =>
                  /\ C15_SameExcept(t, c.targetBefore, {"format"})
                  /\ t.format = c.val
            /\ (c.on = "target" /\ c.setter = "profile") =>
                  /\ C15_SameExcept(t, c.targetBefore, {"profile"})
                  /\ t.profile = c.val
            /\ (c.on = "target" /\ c.setter = "options") =>
                  /\ C15_SameExcept(t, c.targetBefore,
                                    {"compilerOptionEntries", "compilerOptionEntryCount"})
                  /\ t.compilerOptionEntries = c.ptr
                  /\ t.compilerOptionEntryCount = c.len
            /\ (c.on = "session" /\ c.setter = "targets") =>
                  /\ C15_SameExcept(d, c.sessionBefore, {"targets", "targetCount"})
                  /\ d.targets = c.ptr
                  /\ d.targetCount = c.len
            /\ (c.on = "session" /\ c.setter = "search_paths") =>
                  /\ C15_SameExcept(d, c.sessionBefore, {"searchPaths", "searchPathCount"})
                  /\ d.searchPaths = c.ptr
                  /\ d.searchPathCount = c.len
            /\ (c.on = "session" /\ c.setter = "options") =>
                  /\ C15_SameExcept(d, c.sessionBefore,
                                    {"compilerOptionEntries", "compilerOptionEntryCount"})
                  /\ d.compilerOptionEntries = c.ptr
                  /\ d.compilerOptionEntryCount = c.len
            /\ (c.on = "session" /\ c.setter = "file_system") =>
                  /\ C15_SameExcept(d, c.sessionBefore, {"fileSystem"})
                  /\ d.fileSystem = c.ptr

\* search_paths called a second time on a descriptor that has targets: the
\* second slice replaced the first, the targets stayed
C15_Witness ==
    /\ descCall.made
    /\ descCall.on = "session"
    /\ descCall.setter = "search_paths"
    /\ descCall.sessionBefore.searchPaths = "paths1"
    /\ descCall.sessionBefore.targets = "targets2"
    /\ sessionDesc.searchPaths = "paths2"
    /\ sessionDesc.searchPathCount = 2
    /\ sessionDesc.targets = "targets2"
    /\ sessionDesc.targetCount = 2
    /\ sessionDesc.structureSize = SizeOfSessionDesc

----------------------------------------------------------------------------
(* Specifications.                                                         *)

Init ==
    /\ pc = "run"
    /\ last = NoCall
    /\ errHeld = NoResult
    /\ shown = NoShown
    /\ nullSites = {}
    /\ heap = <<>>
    /\ handles = <<>>
    /\ slice = NoSlice
    /\ fsInstalled = NoFs
    /\ fsCall = NoFsCall
    /\ strings = <<>>
    /\ options = <<>>
    /\ optCall = NoOptCall
    /\ iter = NoIter
    /\ fetchLog = <<>>
    /\ lookups = <<>>
    /\ sessionDesc = SessionDesc_default
    /\ targetDesc = TargetDesc_default
    /\ descCall = NoDescCall

SpecFacade == Init /\ [][FacadeNext]_vars

SpecHandle == Init /\ [][HandleNext]_vars

SpecFs == Init /\ [][FsNext]_vars

SpecOptions == Init /\ [][OptNext]_vars

SpecIter == Init /\ [][IterNext]_vars

SpecLookup == Init /\ [][LookupNext]_vars

SpecDesc == Init /\ [][DescNext]_vars

=============================================================================
